---- MODULE Spec2Model ----
(***************************************************************************)
(* A model of todo.c: a command line tool that keeps checklist items as    *)
(* the lines of a ".todo" text file.                                       *)
(*                                                                         *)
(* A string of the program is a sequence of one-character strings, the     *)
(* store is the byte sequence of the .todo file, and one step of the       *)
(* model is one run of main() on an argument vector.  The variables prev,  *)
(* argv, stdin, tty, exit, out, err, calls, opens, fpath and ub belong to  *)
(* the run: they record what it was given and what it did, and they are    *)
(* gone once the process has been reaped; only the files last.             *)
(*                                                                         *)
(* The file system is the working directory cwd, the value of HOME and the *)
(* set dirs of the directories that hold a .todo file; store is the        *)
(* content of the one .todo file the runs resolve to (todo_path resolves   *)
(* to the same file before and after the program creates it), and is empty *)
(* while that file does not exist.                                         *)
(*                                                                         *)
(* Spec tries one form of argv for each function of the program on files   *)
(* of up to MaxLines lines; SpecCli tries every form of argv on files of   *)
(* up to MaxCliLines lines.  In both the .todo file is in the working      *)
(* directory.  SpecFs places .todo files in any of the directories of a    *)
(* small tree, or in none.  SpecClass tries lines of every shape, SpecBig  *)
(* files of more lines than TODO_MAX_ITEMLINES.  SpecRace has two          *)
(* invocations run side by side, one step for each pass over the file.     *)
(*                                                                         *)
(* Modelled environment: a .todo file that exists can be opened in every   *)
(* mode, every line of it is shorter than LINE_MAX-1 bytes (so that one    *)
(* fgets call returns one whole line), and count tokens are short enough   *)
(* that atoi_pedantic's int arithmetic does not overflow.                  *)
(***************************************************************************)
EXTENDS Integers, Sequences, FiniteSets, TLC

VARIABLES
    pc,      \* "ready": no run to look at; "exited": main has returned
    store,   \* bytes of the .todo file
    prev,    \* bytes of the .todo file when the last run of main started
    argv,    \* argv[1..argc-1] of the last run
    stdin,   \* bytes on the standard input of the last run
    tty,     \* isatty(fileno(stdin)) of the last run
    exit,    \* how the last run ended
    out,     \* entries the last run listed on stdout: [n, line]
    err,     \* messages the last run sent through print_error
    calls,   \* the functions main called in the last run: [fn, n, item]
    opens,   \* the modes of the todo_file() calls of the last run that
             \* returned an open file
    fpath,   \* <<>>, or <<p>> with p what the first todo_path() call of
             \* the last run returned: <<>> for NULL, or <<path>>
    ub,      \* the undefined operations the last run performed
    cwd,     \* what getcwd() returns
    home,    \* <<>> when HOME is not set, or <<value of HOME>>
    dirs,    \* the directories that hold a .todo file
    procs    \* the invocations that run side by side: their place in
             \* mark_done, mark_todo or add_item, and their locals

vars ==
    <<pc, store, prev, argv, stdin, tty, exit, out, err, calls, opens,
      fpath, ub, cwd, home, dirs, procs>>

----------------------------------------------------------------------------
(* Bounds *)

MaxLines == 3         \* lines of the store (initially, and after an append)
MaxCliLines == 2      \* the same, where every form of argv is tried
MaxRank == 3          \* largest single-digit count token
MaxMsgArgs == 2       \* message arguments after `--'
MaxStdinLines == 2    \* lines piped to `--'
MaxDepth == 2         \* depth of the directory tree
MaxRaceLines == 2     \* lines of the store two invocations share
MaxClassLines == 2    \* lines of the store, where lines of every shape are tried
MaxBigLines == 65     \* lines of the store, where it outgrows the array lines

----------------------------------------------------------------------------
(* Program constants *)

TODO_MAX_ITEMLINES == 64
TODO_DEFAULT_PRINT_NUM == 10

NL == "\n"

FLAG_HELP_SHORT == <<"-", "h">>
FLAG_HELP_LONG == <<"-", "-", "h", "e", "l", "p">>
FLAG_EDIT_SHORT == <<"-", "e">>
FLAG_EDIT_LONG == <<"-", "-", "e", "d", "i", "t">>
FLAG_VERSION_SHORT == <<"-", "v">>
FLAG_VERSION_LONG == <<"-", "-", "v", "e", "r", "s", "i", "o", "n">>
FLAG_ALL_SHORT == <<"-", "a">>
FLAG_ALL_LONG == <<"-", "-", "p", "r", "i", "n", "t", "-", "a", "l", "l">>
FLAG_TODO_SHORT == <<"-", "t">>
FLAG_TODO_LONG == <<"-", "-", "p", "r", "i", "n", "t", "-", "t", "o", "d", "o">>
FLAG_DONE_SHORT == <<"-", "d">>
FLAG_DONE_LONG == <<"-", "-", "p", "r", "i", "n", "t", "-", "d", "o", "n", "e">>
FLAG_MARK_SHORT == <<"-", "x">>
FLAG_MARK_LONG == <<"-", "-", "d", "o", "n", "e">>
FLAG_UNMARK_SHORT == <<"-", "o">>
FLAG_UNMARK_LONG == <<"-", "-", "t", "o", "d", "o">>
FLAG_CAPTURE == <<"-", "-">>

----------------------------------------------------------------------------
(* Strings and files *)

\* the concatenation of a sequence of strings: what successive fputs calls
\* leave in a file
RECURSIVE Flatten(_)
Flatten(ss) ==
    IF ss = <<>> THEN <<>> ELSE Head(ss) \o Flatten(Tail(ss))

\* length of the string one fgets call returns at the head of f: up to and
\* including the first newline, or all of f when it has none
RECURSIVE fgets_len(_, _)
fgets_len(f, i) ==
    IF i > Len(f) THEN Len(f)
    ELSE IF f[i] = NL THEN i
    ELSE fgets_len(f, i + 1)

\* the strings the loop `while (fgets(line, LINE_MAX, fptr))' sees, in order
RECURSIVE fgets_lines(_)
fgets_lines(f) ==
    IF f = <<>> THEN <<>>
    ELSE LET n == fgets_len(f, 1)
         IN  <<SubSeq(f, 1, n)>> \o fgets_lines(SubSeq(f, n + 1, Len(f)))

\* the byte that ends a C string
NUL == "NUL"

\* the i-th byte of the C string s, counted from 1: its characters, and the
\* NUL after them
c_str(s, i) == IF i <= Len(s) THEN s[i] ELSE NUL

\* strncmp(s, t, n) from the i-th byte on: whether it returns 0, and the
\* index of the last byte of s it has read.  It reads no further than the
\* first byte that differs, the first NUL, or the n-th byte
RECURSIVE strncmp_loop(_, _, _, _)
strncmp_loop(s, t, n, i) ==
    IF i > n THEN [eq |-> TRUE, last |-> n]
    ELSE IF c_str(s, i) # c_str(t, i) THEN [eq |-> FALSE, last |-> i]
    ELSE IF c_str(s, i) = NUL THEN [eq |-> TRUE, last |-> i]
    ELSE strncmp_loop(s, t, n, i + 1)

\* strncmp(line, pat, 3) == 0
strncmp3_eq(line, pat) == strncmp_loop(line, pat, 3, 1).eq

line_is_todo(line) == strncmp3_eq(line, <<"[", " ", "]">>)

\* line_is_done with a mark of either case
line_is_done_anycase(line) ==
    strncmp3_eq(line, <<"[", "X", "]">>) \/ strncmp3_eq(line, <<"[", "x", "]">>)

line_is_done(line) == strncmp3_eq(line, <<"[", "X", "]">>)

----------------------------------------------------------------------------
(* Input *)

Digits == {"0", "1", "2", "3", "4", "5", "6", "7", "8", "9"}

isdigit(c) == c \in Digits

\* str[i] - '0'
DigitValue(c) ==
    CASE c = "0" -> 0 [] c = "1" -> 1 [] c = "2" -> 2 [] c = "3" -> 3
      [] c = "4" -> 4 [] c = "5" -> 5 [] c = "6" -> 6 [] c = "7" -> 7
      [] c = "8" -> 8 [] c = "9" -> 9

\* the for loop of atoi_pedantic, from index i with the result so far
RECURSIVE atoi_loop(_, _, _)
atoi_loop(str, i, result) ==
    IF i > Len(str) THEN result
    ELSE IF ~isdigit(str[i]) THEN 0
    ELSE atoi_loop(str, i + 1, 10 * result + DigitValue(str[i]))

\* atoi's way: the number the leading digits spell, whatever follows them
RECURSIVE atoi_prefix_loop(_, _, _)
atoi_prefix_loop(str, i, result) ==
    IF i > Len(str) \/ ~isdigit(str[i]) THEN result
    ELSE atoi_prefix_loop(str, i + 1, 10 * result + DigitValue(str[i]))

atoi_prefix(str) == atoi_prefix_loop(str, 1, 0)

atoi_pedantic(str) == atoi_loop(str, 1, 0)

\* the strcat loop of concat_args: strs[i..] joined by single spaces
RECURSIVE concat_loop(_, _)
concat_loop(strs, i) ==
    IF i > Len(strs) THEN <<>>
    ELSE IF i = Len(strs) THEN strs[i]
    ELSE strs[i] \o <<" ">> \o concat_loop(strs, i + 1)

\* concat_args without the strcat of " ": the strings run together
concat_args_unspaced(strs) == Flatten(strs)

concat_args(strs) == concat_loop(strs, 1)

----------------------------------------------------------------------------
(* File *)

\* the tail "/.todo" of the format "%s/.todo"
TODO_NAME == <<"/", ".", "t", "o", "d", "o">>

\* d with every run of slashes made one slash
RECURSIVE Squeeze(_)
Squeeze(d) ==
    IF Len(d) <= 1 THEN d
    ELSE IF d[1] = "/" /\ d[2] = "/" THEN Squeeze(Tail(d))
    ELSE <<d[1]>> \o Squeeze(Tail(d))

\* the directory the kernel looks in for the path d "/.todo": repeated and
\* trailing slashes count for nothing, and "/.todo" is in the root
Canonical(d) ==
    LET q == Squeeze(d)
    IN  IF q = <<>> THEN <<"/">>
        ELSE IF Len(q) > 1 /\ q[Len(q)] = "/" THEN SubSeq(q, 1, Len(q) - 1)
        ELSE q

\* the directory of the file a path built by "%s/.todo" names
todo_dir(file_path) ==
    Canonical(SubSeq(file_path, 1, Len(file_path) - Len(TODO_NAME)))

\* stat(file_path) == 0, where ds are the directories that hold a .todo file
file_exists(file_path, ds) == todo_dir(file_path) \in ds

\* todo_home_path with HOME as in h: NULL is <<>>
todo_home_path(h) ==
    IF h = <<>> THEN <<>> ELSE <<h[1] \o TODO_NAME>>

\* strrchr(s, c): the last index of c in s[1..i], or 0 for NULL
RECURSIVE strrchr(_, _, _)
strrchr(s, c, i) ==
    IF i = 0 THEN 0
    ELSE IF s[i] = c THEN i
    ELSE strrchr(s, c, i - 1)

\* the while loop of todo_path, with the local buffer cwd as in c
RECURSIVE todo_path_loop(_, _, _)
todo_path_loop(c, ds, h) ==
    LET path == c \o TODO_NAME
        parent_dir == strrchr(c, "/", Len(c))
    IN  IF file_exists(path, ds) THEN <<path>>
        ELSE IF parent_dir = 0 THEN todo_home_path(h)
        ELSE IF parent_dir - 1 = 0 THEN todo_home_path(h)
        ELSE todo_path_loop(SubSeq(c, 1, parent_dir - 1), ds, h)

\* todo_path() in working directory c: <<>> for NULL, or <<path>>
todo_path(c, ds, h) == todo_path_loop(c, ds, h)

\* what print_error calls todo_path makes
todo_path_errors(c, ds, h) ==
    IF todo_path(c, ds, h) = <<>>
    THEN <<"HOME environment variable not set">>
    ELSE <<>>

\* fopen(fpath, mode) returns a file: "r" needs the file to exist, "w" and
\* "a" create it
fopen_ok(p, mode, ds) == mode # "r" \/ file_exists(p, ds)

\* todo_file(mode): whether it returns an open file, the path it resolved,
\* and what it sent through print_error
todo_file(mode, c, ds, h) ==
    LET p == todo_path(c, ds, h)
    IN  IF p = <<>>
        THEN [ok |-> FALSE, fpath |-> p,
              err |-> todo_path_errors(c, ds, h) \o <<"cannot open todo file">>]
        ELSE IF ~fopen_ok(p[1], mode, ds)
        THEN [ok |-> FALSE, fpath |-> p, err |-> <<"cannot open file">>]
        ELSE [ok |-> TRUE, fpath |-> p, err |-> <<>>]

----------------------------------------------------------------------------
(* Reading *)

\* a call through the function pointer line_test, which holds line_is_todo
\* or line_is_done
call_line_test(line_test, line) ==
    CASE line_test = "line_is_todo" -> line_is_todo(line)
      [] line_test = "line_is_done" -> line_is_done(line)

\* print_loop with i++ moved out of the if: every line read takes a rank
RECURSIVE print_loop_count_all(_, _, _, _, _)
print_loop_count_all(ls, line_test, max_lines, k, i) ==
    IF ~(i <= max_lines) \/ k > Len(ls) THEN <<>>
    ELSE IF call_line_test(line_test, ls[k])
         THEN <<[n |-> i, line |-> ls[k]]>>
                  \o print_loop_count_all(ls, line_test, max_lines, k + 1, i + 1)
         ELSE print_loop_count_all(ls, line_test, max_lines, k + 1, i + 1)

\* the while loop of print_with_filter over the lines ls of the file: k is
\* the next line fgets returns, i the next rank
RECURSIVE print_loop(_, _, _, _, _)
print_loop(ls, line_test, max_lines, k, i) ==
    IF ~(i <= max_lines) \/ k > Len(ls) THEN <<>>
    ELSE IF call_line_test(line_test, ls[k])
         THEN <<[n |-> i, line |-> ls[k]]>>
                  \o print_loop(ls, line_test, max_lines, k + 1, i + 1)
         ELSE print_loop(ls, line_test, max_lines, k + 1, i)

\* what print_with_filter(line_test, max_lines) prints of file f
print_with_filter(line_test, max_lines, f) ==
    print_loop(fgets_lines(f), line_test, max_lines, 1, 1)

print_todo(max_lines, f) == print_with_filter("line_is_todo", max_lines, f)

print_done(max_lines, f) == print_with_filter("line_is_done", max_lines, f)

\* print_all with one bound for both classes: the done lines get what the
\* todo lines have left of max_lines
print_all_one_bound(max_lines, f) ==
    LET todo == print_todo(max_lines, f)
    IN  todo \o print_done(max_lines - Len(todo), f)

print_all(max_lines, f) == print_todo(max_lines, f) \o print_done(max_lines, f)

----------------------------------------------------------------------------
(* Writing *)

\* line with line[idx] = c, idx counted from 0 as in C; the store lands in
\* the malloc'ed copy, which has room for it even in a one-byte line
SetChar(line, idx, c) ==
    [j \in 1..Len(line) |-> IF j = idx + 1 THEN c ELSE line[j]]

\* the locals of mark_done / mark_todo before the read loop; target = <<>>
\* is the NULL pointer, lines is lines[0..line_num-1], and oob records a
\* store to lines[line_num] with line_num >= capacity
ToggleLocals ==
    [count |-> 0, target |-> <<>>, lines |-> <<>>,
     capacity |-> TODO_MAX_ITEMLINES, oob |-> FALSE]

\* the tail of the read loop's body, shared by both functions: grow the
\* buffer when line_num > capacity, then keep a copy of line
Retain(st, count, line) ==
    LET line_num == Len(st.lines)
        capacity == IF line_num > st.capacity THEN 2 * st.capacity
                    ELSE st.capacity
    IN  [count |-> count, target |-> st.target,
         lines |-> Append(st.lines, line),
         capacity |-> capacity, oob |-> st.oob \/ line_num >= capacity]

\* the read loop of mark_done over the lines ls, from line k.  The count
\* is compared first, so that st is evaluated in every round and not in one
\* chain at the end of a long file
RECURSIVE mark_done_loop(_, _, _, _)
mark_done_loop(ls, item_num, k, st) ==
    IF k > Len(ls) THEN st
    ELSE LET line == ls[k]
             count_todo == IF line_is_todo(line) THEN st.count + 1
                           ELSE st.count
         IN  IF count_todo = item_num /\ line_is_todo(line)
             THEN mark_done_loop(ls, item_num, k + 1,
                      [st EXCEPT !.count = count_todo,
                                 !.target = <<SetChar(line, 1, "X")>>])
             ELSE mark_done_loop(ls, item_num, k + 1,
                      Retain(st, count_todo, line))

\* mark_done writing the target last, as mark_todo does
mark_done_bottom(item_num, f) ==
    LET st == mark_done_loop(fgets_lines(f), item_num, 1, ToggleLocals)
    IN  [store |-> Flatten(st.lines \o st.target),
         found |-> st.target # <<>>, oob |-> st.oob]

\* mark_done writing the retained lines only when it has a target
mark_done_guarded_write(item_num, f) ==
    LET st == mark_done_loop(fgets_lines(f), item_num, 1, ToggleLocals)
    IN  [store |-> IF st.target # <<>> THEN Flatten(st.target \o st.lines)
                   ELSE <<>>,
         found |-> st.target # <<>>, oob |-> st.oob]

\* mark_done(item_num) on file f: the file it leaves, and its locals
mark_done(item_num, f) ==
    LET st == mark_done_loop(fgets_lines(f), item_num, 1, ToggleLocals)
    IN  [store |-> Flatten(st.target \o st.lines),
         found |-> st.target # <<>>, oob |-> st.oob]

\* the read loop of mark_todo over the lines ls, from line k
RECURSIVE mark_todo_loop(_, _, _, _)
mark_todo_loop(ls, item_num, k, st) ==
    IF k > Len(ls) THEN st
    ELSE LET line == ls[k]
             count_done == IF line_is_done(line) THEN st.count + 1
                           ELSE st.count
         IN  IF count_done = item_num /\ line_is_done(line)
             THEN mark_todo_loop(ls, item_num, k + 1,
                      [st EXCEPT !.count = count_done,
                                 !.target = <<SetChar(line, 1, " ")>>])
             ELSE mark_todo_loop(ls, item_num, k + 1,
                      Retain(st, count_done, line))

\* mark_todo writing the target first, as mark_done does
mark_todo_top(item_num, f) ==
    LET st == mark_todo_loop(fgets_lines(f), item_num, 1, ToggleLocals)
    IN  [store |-> Flatten(st.target \o st.lines),
         found |-> st.target # <<>>, oob |-> st.oob]

\* mark_todo(item_num) on file f: the file it leaves, and its locals
mark_todo(item_num, f) ==
    LET st == mark_todo_loop(fgets_lines(f), item_num, 1, ToggleLocals)
    IN  [store |-> Flatten(st.lines \o st.target),
         found |-> st.target # <<>>, oob |-> st.oob]

\* add_item(item) on file f: the three fputs calls append to it
add_item(item, f) == f \o <<"[", " ", "]", " ">> \o item \o <<NL>>

----------------------------------------------------------------------------
(* The inputs of a run *)

\* all sequences over S of length at most n
RECURSIVE SeqsUpTo(_, _)
SeqsUpTo(S, n) ==
    IF n = 0 THEN {<<>>}
    ELSE LET shorter == SeqsUpTo(S, n - 1)
         IN  shorter \cup {Append(q, x) : q \in {r \in shorter : Len(r) = n - 1},
                                          x \in S}

\* lines of a .todo file, without their newline: two todo items, two done
\* items and a foreign line
LineBodies ==
    { <<"[", " ", "]", " ", "a">>, <<"[", " ", "]", " ", "b">>,
      <<"[", "X", "]", " ", "a">>, <<"[", "X", "]", " ", "b">>,
      <<"#">> }

\* the files made of the lines bs, each ended by a newline, and the same
\* file without its last newline
FilesOf(bs) ==
    LET whole == Flatten([k \in 1..Len(bs) |-> bs[k] \o <<NL>>])
    IN  IF bs # <<>> /\ bs[Len(bs)] # <<>>
        THEN {whole, SubSeq(whole, 1, Len(whole) - 1)}
        ELSE {whole}

\* the files of at most n lines
Stores(n) == UNION {FilesOf(bs) : bs \in SeqsUpTo(LineBodies, n)}

\* the model lets the file grow no further than the largest of these files:
\* n lines, and the bytes of n of the longest lines
Bounded(f, n) == Len(fgets_lines(f)) <= n /\ Len(f) <= 6 * n

DigitChars == <<"1", "2", "3", "4", "5", "6", "7", "8", "9">>

\* the ranks 1..MaxRank as count tokens
RankTokens == {<<DigitChars[n]>> : n \in 1..MaxRank}

\* count tokens: the ranks, longer numbers, a zero, the empty token, and
\* tokens with a character that is no digit
Tokens ==
    RankTokens
    \cup { <<"1", "0">>, <<"0", "1">>, <<"0">>, <<>>,
           <<"a">>, <<"1", "a">> }

ShortCountFlags ==
    {FLAG_ALL_SHORT, FLAG_TODO_SHORT, FLAG_DONE_SHORT,
     FLAG_MARK_SHORT, FLAG_UNMARK_SHORT}

LongCountFlags ==
    {FLAG_ALL_LONG, FLAG_TODO_LONG, FLAG_DONE_LONG,
     FLAG_MARK_LONG, FLAG_UNMARK_LONG}

Words == {<<"a">>, <<"b">>}

\* every form of argv[1..argc-1]
Argvs ==
    {<<>>}
    \cup {<<fl>> : fl \in {FLAG_HELP_SHORT, FLAG_HELP_LONG, FLAG_EDIT_SHORT,
                           FLAG_EDIT_LONG, FLAG_VERSION_SHORT,
                           FLAG_VERSION_LONG}}
    \cup {<<fl>> : fl \in {<<>>, <<"1">>, <<"-">>, <<"-", "z">>}}
    \cup {<<fl \o tok>> : fl \in ShortCountFlags, tok \in Tokens}
    \cup {<<fl>> : fl \in LongCountFlags \cup {<<"-", "-", "x">>}}
    \cup {<<fl, tok>> : fl \in ShortCountFlags \cup LongCountFlags
                                \cup {<<"-", "-", "x">>, <<"-", "x", "1">>},
                        tok \in Tokens}
    \cup {<<FLAG_CAPTURE>> \o ws : ws \in SeqsUpTo(Words, MaxMsgArgs)}

\* what is piped to `--': lines "a" and "", the last one with or without
\* its newline
Stdins == UNION {FilesOf(bs) : bs \in SeqsUpTo({<<"a">>, <<>>}, MaxStdinLines)}

\* one form of argv for each function main calls, with every rank and a
\* count beyond every rank
CoreArgvs ==
    { <<>>, <<FLAG_HELP_SHORT>>, <<FLAG_EDIT_SHORT>>, <<FLAG_VERSION_SHORT>>,
      <<<<"-", "z">>>>, <<FLAG_CAPTURE>>, <<FLAG_CAPTURE, <<"a">>>>,
      <<FLAG_CAPTURE, <<"a">>, <<"b">>>> }
    \cup {<<fl \o tok>> : fl \in {FLAG_MARK_SHORT, FLAG_UNMARK_SHORT},
                          tok \in RankTokens \cup {<<"1", "0">>}}
    \cup {<<fl, tok>> : fl \in {FLAG_ALL_SHORT, FLAG_TODO_SHORT, FLAG_DONE_SHORT},
                        tok \in RankTokens \cup {<<"1", "0">>}}

\* what a specification tries: the argument vectors, the inputs piped to
\* `--', and the lines the file may grow to
CoreEnv == [argvs |-> CoreArgvs, stdins |-> {<<"a", NL>>}, lines |-> MaxLines]

CliEnv == [argvs |-> Argvs, stdins |-> Stdins, lines |-> MaxCliLines]

----------------------------------------------------------------------------
(* main *)

argc(a) == Len(a) + 1

strcmp_eq(s, t) == s = t

IsHelp(flag) == strcmp_eq(flag, FLAG_HELP_SHORT) \/ strcmp_eq(flag, FLAG_HELP_LONG)

IsEdit(flag) == strcmp_eq(flag, FLAG_EDIT_SHORT) \/ strcmp_eq(flag, FLAG_EDIT_LONG)

IsVersion(flag) ==
    strcmp_eq(flag, FLAG_VERSION_SHORT) \/ strcmp_eq(flag, FLAG_VERSION_LONG)

\* the test of line 463: flag is no option main knows
NotAnOption(flag) ==
    IF Len(flag) = 0 THEN TRUE
    ELSE IF flag[1] # "-" THEN TRUE
    ELSE IF Len(flag) = 1 THEN TRUE
    ELSE flag[2] \notin {"-", "a", "t", "d", "o", "x"}

\* a run gets past the exact-match flags and the test of line 463
PastFlagTests(a) ==
    /\ ~(argc(a) < 2)
    /\ ~IsHelp(a[1]) /\ ~IsEdit(a[1]) /\ ~IsVersion(a[1])
    /\ ~NotAnOption(a[1])

\* the run of main on a has ended with the result r: what it leaves behind
Ended(a, in, t, r) ==
    /\ pc' = "exited"
    /\ prev' = store
    /\ store' = r.store
    /\ argv' = a
    /\ stdin' = in
    /\ tty' = t
    /\ exit' = r.exit
    /\ out' = r.out
    /\ err' = r.err
    /\ calls' = r.calls
    /\ opens' = r.opens
    /\ fpath' = r.fpath
    /\ ub' = r.ub
    /\ dirs' = dirs \cup r.made
    /\ UNCHANGED <<cwd, home, procs>>

\* the same for a run that called neither todo_path nor todo_file
Exited(a, in, t, status, file, printed, errors, called, opened) ==
    Ended(a, in, t,
          [exit |-> status, store |-> file, out |-> printed, err |-> errors,
           calls |-> called, opens |-> opened, fpath |-> <<>>, ub |-> <<>>,
           made |-> {}])

NoCall == [fn |-> "none", n |-> 0, item |-> <<>>]

\* what a call of fn(n) does to file f: the file it leaves, what it prints,
\* the todo_file modes it opens, the call itself
Call(fn, n, f) ==
    LET base == [store |-> f, out |-> <<>>, opens |-> <<"r">>,
                 calls |-> <<[NoCall EXCEPT !.fn = fn, !.n = n]>>]
    IN  CASE fn = "print_all" ->
               [base EXCEPT !.out = print_all(n, f), !.opens = <<"r", "r">>]
          [] fn = "print_todo" -> [base EXCEPT !.out = print_todo(n, f)]
          [] fn = "print_done" -> [base EXCEPT !.out = print_done(n, f)]
          [] fn = "mark_done" ->
               [base EXCEPT !.store = mark_done(n, f).store,
                            !.opens = <<"r", "w">>]
          [] fn = "mark_todo" ->
               [base EXCEPT !.store = mark_todo(n, f).store,
                            !.opens = <<"r", "w">>]
          [] fn = "none" -> [base EXCEPT !.opens = <<>>, !.calls = <<>>]

\* the results a run of main can have that calls fn(n) on file f and
\* returns EXIT_SUCCESS after it.  The listings use what todo_file("r")
\* returns without a test, the toggles return when it is NULL; a toggle
\* that has stored beyond the end of lines has corrupted the heap, and the
\* process goes on, or is aborted before or after it has written the file
Outcomes(fn, n, f) ==
    LET tf == todo_file("r", cwd, dirs, home)
        c == Call(fn, n, f)
        ok == [exit |-> "EXIT_SUCCESS", store |-> c.store, out |-> c.out,
               err |-> <<>>, calls |-> c.calls, opens |-> c.opens,
               fpath |-> <<tf.fpath>>, ub |-> <<>>, made |-> {}]
        unopened == [ok EXCEPT !.store = f, !.out = <<>>, !.err = tf.err,
                               !.opens = <<>>]
        oob == IF fn = "mark_done" THEN mark_done(n, f).oob
               ELSE mark_todo(n, f).oob
        beyond == [ok EXCEPT !.ub = <<"lines[line_num], line_num >= capacity">>]
    IN  IF fn = "none" THEN {[ok EXCEPT !.fpath = <<>>]}
        ELSE IF fn \in {"print_all", "print_todo", "print_done"}
        THEN IF tf.ok THEN {ok}
             ELSE {[unopened EXCEPT !.exit = "SIGSEGV",
                                    !.ub = <<"fgets(line, LINE_MAX, NULL)">>]}
        ELSE IF ~tf.ok
        THEN {[unopened EXCEPT
                   !.err = tf.err \o <<"cannot open .todo for reading">>]}
        ELSE IF ~oob THEN {ok}
        ELSE {beyond,
              [beyond EXCEPT !.exit = "SIGABRT", !.store = f,
                             !.opens = <<"r">>],
              [beyond EXCEPT !.exit = "SIGABRT"]}

\* argc < 2: print_todo(TODO_DEFAULT_PRINT_NUM)
MainDefault(env) ==
    /\ pc = "ready"
    /\ \E a \in env.argvs :
           /\ argc(a) < 2
           /\ \E r \in Outcomes("print_todo", TODO_DEFAULT_PRINT_NUM, store) :
                  Ended(a, <<>>, TRUE, r)

MainHelp(env) ==
    /\ pc = "ready"
    /\ \E a \in env.argvs :
           /\ ~(argc(a) < 2)
           /\ IsHelp(a[1])
           /\ Exited(a, <<>>, TRUE, "EXIT_SUCCESS", store, <<>>, <<>>,
                     <<[NoCall EXCEPT !.fn = "print_help"]>>, <<>>)

\* the lines of f are lines of LineBodies
Plain(f) ==
    LET ls == fgets_lines(f)
    IN  \A k \in 1..Len(ls) :
            \/ ls[k] \in LineBodies
            \/ ls[k][Len(ls[k])] = NL
                   /\ SubSeq(ls[k], 1, Len(ls[k]) - 1) \in LineBodies

\* what the editor may leave of file f: f itself, f with its last newline
\* removed or supplied, f with one more line
Edits(f, n) ==
    LET ended == f = <<>> \/ f[Len(f)] = NL
    IN  {f} \cup
        {g \in (IF f # <<>> /\ ended THEN {SubSeq(f, 1, Len(f) - 1)} ELSE {})
               \cup (IF ~ended THEN {f \o <<NL>>} ELSE {})
               \cup (IF ended THEN {f \o body \o <<NL>> : body \in LineBodies}
                     ELSE {}) :
            Bounded(g, n) /\ Plain(g)}

\* edit_todo_file: system() runs the editor on the file
MainEdit(env) ==
    /\ pc = "ready"
    /\ \E a \in env.argvs :
           /\ ~(argc(a) < 2)
           /\ ~IsHelp(a[1])
           /\ IsEdit(a[1])
           /\ LET p == todo_path(cwd, dirs, home)
                  r == [exit |-> "EXIT_SUCCESS", store |-> store, out |-> <<>>,
                        err |-> todo_path_errors(cwd, dirs, home),
                        calls |-> <<[NoCall EXCEPT !.fn = "edit_todo_file"]>>,
                        opens |-> <<>>, fpath |-> <<p>>, ub |-> <<>>,
                        made |-> {}]
              IN  IF p = <<>>
                  THEN Ended(a, <<>>, TRUE,
                             [r EXCEPT !.ub = <<"snprintf(\"%s\", NULL)">>])
                  ELSE \E edited \in Edits(store, env.lines) :
                           Ended(a, <<>>, TRUE,
                                 [r EXCEPT !.store = edited,
                                           !.made = IF edited # <<>>
                                                    THEN {todo_dir(p[1])}
                                                    ELSE {}])

MainVersion(env) ==
    /\ pc = "ready"
    /\ \E a \in env.argvs :
           /\ ~(argc(a) < 2)
           /\ ~IsHelp(a[1]) /\ ~IsEdit(a[1])
           /\ IsVersion(a[1])
           /\ Exited(a, <<>>, TRUE, "EXIT_SUCCESS", store, <<>>, <<>>,
                     <<[NoCall EXCEPT !.fn = "print_version"]>>, <<>>)

\* line 463: the flag is not recognised
MainUnrecognised(env) ==
    /\ pc = "ready"
    /\ \E a \in env.argvs :
           /\ ~(argc(a) < 2)
           /\ ~IsHelp(a[1]) /\ ~IsEdit(a[1]) /\ ~IsVersion(a[1])
           /\ NotAnOption(a[1])
           /\ Exited(a, <<>>, TRUE, "EXIT_FAILURE", store, <<>>,
                     <<"not recognised as a todo option">>, <<>>, <<>>)

\* the function the switch of line 480 calls for flag[1]
SwitchFn(c) ==
    CASE c = "a" -> "print_all"
      [] c = "t" -> "print_todo"
      [] c = "d" -> "print_done"
      [] c = "x" -> "mark_done"
      [] c = "o" -> "mark_todo"

\* lines 469-501: one argument, a short option with its count attached
MainShort(env) ==
    /\ pc = "ready"
    /\ \E a \in env.argvs :
           /\ PastFlagTests(a)
           /\ argc(a) = 2 /\ a[1][2] # "-"
           /\ LET flag == a[1]
                  n == atoi_pedantic(SubSeq(flag, 3, Len(flag)))
              IN  IF Len(flag) < 3
                  THEN Exited(a, <<>>, TRUE, "EXIT_FAILURE", store, <<>>,
                              <<"needs additional arguments">>, <<>>, <<>>)
                  ELSE IF n = 0
                  THEN Exited(a, <<>>, TRUE, "EXIT_FAILURE", store, <<>>,
                              <<"not recognised as a todo option">>, <<>>, <<>>)
                  ELSE \E r \in Outcomes(SwitchFn(flag[2]), n, store) :
                           Ended(a, <<>>, TRUE, r)

\* the stdin loop of lines 518-524 over the lines ls of stdin, from line k:
\* r.store is the file so far, r.calls the add_item calls so far
RECURSIVE capture_loop(_, _, _)
capture_loop(ls, k, r) ==
    IF k > Len(ls) THEN r
    ELSE LET len == Len(ls[k])
             line == IF ls[k][len] = NL THEN SubSeq(ls[k], 1, len - 1)
                     ELSE ls[k]
         IN  capture_loop(ls, k + 1,
                 [store |-> add_item(line, r.store),
                  calls |-> Append(r.calls,
                                [NoCall EXCEPT !.fn = "add_item", !.item = line]),
                  opens |-> Append(r.opens, "a")])

\* what a run of main leaves that has made the add_item calls of r, the
\* first of them at least: add_item uses what todo_file("a") returns
\* without a test
Added(r) ==
    LET tf == todo_file("a", cwd, dirs, home)
        ok == [exit |-> "EXIT_SUCCESS", store |-> r.store, out |-> <<>>,
               err |-> <<>>, calls |-> r.calls, opens |-> r.opens,
               fpath |-> <<tf.fpath>>, ub |-> <<>>, made |-> {}]
    IN  IF r.calls = <<>> THEN [ok EXCEPT !.fpath = <<>>]
        ELSE IF tf.ok THEN [ok EXCEPT !.made = {todo_dir(tf.fpath[1])}]
        ELSE [ok EXCEPT !.exit = "SIGSEGV", !.store = store, !.err = tf.err,
                        !.calls = <<r.calls[1]>>, !.opens = <<>>,
                        !.ub = <<"fputs(\"[ ] \", NULL)">>]

\* lines 503-527: `--', a message in the arguments or on stdin
MainCapture(env) ==
    /\ pc = "ready"
    /\ \E a \in env.argvs :
           /\ PastFlagTests(a)
           /\ ~(argc(a) = 2 /\ a[1][2] # "-")
           /\ strcmp_eq(a[1], FLAG_CAPTURE)
           /\ IF argc(a) > 2
              THEN LET message == concat_args(SubSeq(a, 2, Len(a)))
                       r == [store |-> add_item(message, store),
                             calls |-> <<[NoCall EXCEPT !.fn = "add_item",
                                                        !.item = message]>>,
                             opens |-> <<"a">>]
                   IN  /\ Bounded(r.store, env.lines)
                       /\ Ended(a, <<>>, TRUE, Added(r))
              ELSE \/ Exited(a, <<>>, TRUE, "EXIT_FAILURE", store, <<>>,
                             <<"no message supplied after '--'">>, <<>>, <<>>)
                   \/ \E in \in env.stdins :
                          LET ls == fgets_lines(in)
                              r == capture_loop(ls, 1,
                                       [store |-> store, calls |-> <<>>,
                                        opens |-> <<>>])
                          IN  /\ Bounded(r.store, env.lines)
                              /\ Ended(a, in, FALSE, Added(r))

\* the function the if chain of lines 536-553 calls for flag
ChainFn(flag) ==
    IF strcmp_eq(flag, FLAG_ALL_SHORT) \/ strcmp_eq(flag, FLAG_ALL_LONG)
    THEN "print_all"
    ELSE IF strcmp_eq(flag, FLAG_DONE_SHORT) \/ strcmp_eq(flag, FLAG_DONE_LONG)
    THEN "print_done"
    ELSE IF strcmp_eq(flag, FLAG_TODO_SHORT) \/ strcmp_eq(flag, FLAG_TODO_LONG)
    THEN "print_todo"
    ELSE IF strcmp_eq(flag, FLAG_MARK_SHORT) \/ strcmp_eq(flag, FLAG_MARK_LONG)
    THEN "mark_done"
    ELSE IF strcmp_eq(flag, FLAG_UNMARK_SHORT) \/ strcmp_eq(flag, FLAG_UNMARK_LONG)
    THEN "mark_todo"
    ELSE "none"

\* lines 529-555: an option and its count in argv[2].  With argc = 2,
\* argv[2] is the NULL that ends argv, and atoi_pedantic reads through it
MainCount(env) ==
    /\ pc = "ready"
    /\ \E a \in env.argvs :
           /\ PastFlagTests(a)
           /\ ~(argc(a) = 2 /\ a[1][2] # "-")
           /\ ~strcmp_eq(a[1], FLAG_CAPTURE)
           /\ IF argc(a) = 2
              THEN Ended(a, <<>>, TRUE,
                         [exit |-> "SIGSEGV", store |-> store, out |-> <<>>,
                          err |-> <<>>, calls |-> <<>>, opens |-> <<>>,
                          fpath |-> <<>>, ub |-> <<"argv[2][0], argv[2] == NULL">>,
                          made |-> {}])
              ELSE LET n == atoi_pedantic(a[2])
                   IN  IF n = 0
                       THEN Exited(a, <<>>, TRUE, "EXIT_FAILURE", store, <<>>,
                                   <<"needs a numeric argument">>, <<>>, <<>>)
                       ELSE \E r \in Outcomes(ChainFn(a[1]), n, store) :
                                Ended(a, <<>>, TRUE, r)

\* the process is gone: what is left of the run is the file
Reap ==
    /\ pc = "exited"
    /\ pc' = "ready"
    /\ prev' = store
    /\ argv' = <<>>
    /\ stdin' = <<>>
    /\ tty' = TRUE
    /\ exit' = "none"
    /\ out' = <<>>
    /\ err' = <<>>
    /\ calls' = <<>>
    /\ opens' = <<>>
    /\ fpath' = <<>>
    /\ ub' = <<>>
    /\ UNCHANGED <<store, cwd, home, dirs, procs>>

RunVarsClear ==
    /\ argv = <<>>
    /\ stdin = <<>>
    /\ tty = TRUE
    /\ exit = "none"
    /\ out = <<>>
    /\ err = <<>>
    /\ calls = <<>>
    /\ opens = <<>>
    /\ fpath = <<>>
    /\ ub = <<>>

\* the working directory holds the .todo file, HOME is another directory
InCwd ==
    /\ cwd = <<"/", "a">>
    /\ home = <<<<"/", "h">>>>
    /\ dirs = {cwd}

\* no invocations run side by side
Alone == procs = <<>>

Init ==
    /\ pc = "ready"
    /\ store \in Stores(MaxLines)
    /\ prev = store
    /\ RunVarsClear
    /\ InCwd
    /\ Alone

Run(env) ==
    \/ MainDefault(env)
    \/ MainHelp(env)
    \/ MainEdit(env)
    \/ MainVersion(env)
    \/ MainUnrecognised(env)
    \/ MainShort(env)
    \/ MainCapture(env)
    \/ MainCount(env)

Next == Run(CoreEnv) \/ Reap

Spec == Init /\ [][Next]_vars

\* every form of argv, on smaller files
InitCli ==
    /\ pc = "ready"
    /\ store \in Stores(MaxCliLines)
    /\ prev = store
    /\ RunVarsClear
    /\ InCwd
    /\ Alone

NextCli == Run(CliEnv) \/ Reap

SpecCli == InitCli /\ [][NextCli]_vars

\* the directories of a tree of depth n, with two names at each level
TreeDirs(n) ==
    {<<"/">>} \cup
    {Flatten([k \in 1..Len(q) |-> <<"/", q[k]>>]) :
         q \in SeqsUpTo({"a", "b"}, n) \ {<<>>}}

\* HOME is not set, or is a directory of the tree
Homes == {<<>>, <<<<"/", "a">>>>}

\* one form of argv for each action, on a file of at most one line
FsArgvs ==
    { <<>>, <<FLAG_HELP_SHORT>>, <<FLAG_EDIT_SHORT>>, <<FLAG_VERSION_SHORT>>,
      <<<<"-", "z">>>>, <<FLAG_CAPTURE>>, <<FLAG_CAPTURE, <<"a">>>>,
      <<<<"-", "x", "1">>>>, <<<<"-", "o", "1">>>>, <<FLAG_ALL_SHORT, <<"1">>>> }

FsEnv == [argvs |-> FsArgvs, stdins |-> {<<"a", NL>>}, lines |-> 1]

\* .todo files in at most two directories of the tree, any of them the
\* working directory; the file the runs resolve to is empty, or holds a
\* todo line or a done line
InitFs ==
    /\ pc = "ready"
    /\ cwd \in TreeDirs(MaxDepth)
    /\ home \in Homes
    /\ dirs \in {ds \in SUBSET TreeDirs(MaxDepth) : Cardinality(ds) <= 2}
    /\ LET p == todo_path(cwd, dirs, home)
       IN  IF p # <<>> /\ file_exists(p[1], dirs)
           THEN store \in {<<>>, <<"[", " ", "]", " ", "a", NL>>,
                                 <<"[", "X", "]", " ", "a", NL>>}
           ELSE store = <<>>
    /\ prev = store
    /\ RunVarsClear
    /\ Alone

NextFs == Run(FsEnv) \/ Reap

SpecFs == InitFs /\ [][NextFs]_vars

\* lines of every shape, without their newline: shorter than three
\* characters, a bare mark, a mark of the other case, a mark after a blank,
\* and items
ClassBodies ==
    { <<>>, <<"[">>, <<"[", " ">>, <<"[", "X">>, <<"[", " ", "]">>,
      <<"[", "X", "]">>, <<"[", "x", "]">>, <<" ", "[", " ", "]">>,
      <<"[", " ", "]", " ", "a">>, <<"[", "X", "]", " ", "a">> }

ClassArgvs ==
    FsArgvs \cup
    { <<FLAG_TODO_SHORT, <<"1", "0">>>>, <<FLAG_DONE_SHORT, <<"1", "0">>>>,
      <<<<"-", "x", "2">>>>, <<<<"-", "o", "2">>>> }

ClassEnv ==
    [argvs |-> ClassArgvs, stdins |-> {<<"a", NL>>}, lines |-> MaxClassLines]

InitClass ==
    /\ pc = "ready"
    /\ store \in UNION {FilesOf(bs) : bs \in SeqsUpTo(ClassBodies, MaxClassLines)}
    /\ prev = store
    /\ RunVarsClear
    /\ InCwd
    /\ Alone

NextClass == Run(ClassEnv) \/ Reap

SpecClass == InitClass /\ [][NextClass]_vars

\* files of MaxBigLines lines, all of them todo lines or all of them done
\* lines
BigStores ==
    {Flatten([k \in 1..MaxBigLines |-> body \o <<NL>>]) :
         body \in {<<"[", " ", "]", " ", "a">>, <<"[", "X", "]", " ", "a">>}}

\* these files are only listed and toggled: nothing is appended to them,
\* and the editor leaves them as they are
BigEnv == [argvs |-> FsArgvs, stdins |-> {<<>>}, lines |-> 0]

InitBig ==
    /\ pc = "ready"
    /\ store \in BigStores
    /\ prev = store
    /\ RunVarsClear
    /\ InCwd
    /\ Alone

NextBig == Run(BigEnv) \/ Reap

SpecBig == InitBig /\ [][NextBig]_vars

----------------------------------------------------------------------------
(* Two invocations side by side *)

\* One step is one pass of mark_done / mark_todo over the file, or the
\* whole of add_item.  The file is shorter than a stdio buffer: the read
\* loop sees the file as it was at its first fgets, what the fputs calls
\* wrote reaches the file at fclose in one write at offset 0, and add_item's
\* three fputs reach it in one write at the end of the file (O_APPEND).

Invocations == {1, 2}

Other(p) == 3 - p

IsToggle(fn) == fn \in {"mark_done", "mark_todo"}

\* what the invocations may be: a toggle of rank 1 or 2, or add_item("c")
RaceOps ==
    {[fn |-> fn, n |-> n, item |-> <<>>] :
         fn \in {"mark_done", "mark_todo"}, n \in {1, 2}}
    \cup {[fn |-> "add_item", n |-> 0, item |-> <<"c">>]}

\* an invocation that has not yet opened the file: seen is the file its
\* read loop saw, at the places the other invocation was in each time this
\* one changed the file
Started(op) ==
    [fn |-> op.fn, n |-> op.n, item |-> op.item, pc |-> "start",
     seen |-> <<>>, target |-> <<>>, lines |-> <<>>, at |-> <<>>]

\* an open that leaves the file f as it is
fopen_keep(f) == f

\* fopen(fpath, "w") on the file f: f is truncated
fopen_w(f) == SubSeq(f, 1, 0)

\* write() of bytes at offset 0 of the file f
write_at_0(bytes, f) == bytes \o SubSeq(f, Len(bytes) + 1, Len(f))

\* lines 302-334, 362-394: todo_file("r"), the read loop, fclose
ReadPass(p) ==
    /\ procs[p].pc = "start"
    /\ IsToggle(procs[p].fn)
    /\ todo_file("r", cwd, dirs, home).ok
    /\ LET ls == fgets_lines(store)
           st == IF procs[p].fn = "mark_done"
                 THEN mark_done_loop(ls, procs[p].n, 1, ToggleLocals)
                 ELSE mark_todo_loop(ls, procs[p].n, 1, ToggleLocals)
       IN  procs' = [procs EXCEPT ![p].pc = "read", ![p].seen = store,
                                  ![p].target = st.target,
                                  ![p].lines = st.lines]
    /\ UNCHANGED <<pc, store, prev, argv, stdin, tty, exit, out, err, calls,
                   opens, fpath, ub, cwd, home, dirs>>

\* lines 335-339, 395-399: todo_file("w")
OpenForWriting(p) ==
    /\ procs[p].pc = "read"
    /\ todo_file("w", cwd, dirs, home).ok
    /\ store' = fopen_w(store)
    /\ procs' = [procs EXCEPT ![p].pc = "opened",
                              ![p].at = Append(@, procs[Other(p)].pc)]
    /\ UNCHANGED <<pc, prev, argv, stdin, tty, exit, out, err, calls,
                   opens, fpath, ub, cwd, home, dirs>>

\* lines 341-350, 401-409: the fputs calls and fclose
WritePass(p) ==
    /\ procs[p].pc = "opened"
    /\ LET bytes == IF procs[p].fn = "mark_done"
                    THEN Flatten(procs[p].target \o procs[p].lines)
                    ELSE Flatten(procs[p].lines \o procs[p].target)
       IN  store' = write_at_0(bytes, store)
    /\ procs' = [procs EXCEPT ![p].pc = "done",
                              ![p].at = Append(@, procs[Other(p)].pc)]
    /\ UNCHANGED <<pc, prev, argv, stdin, tty, exit, out, err, calls,
                   opens, fpath, ub, cwd, home, dirs>>

\* lines 417-425: add_item
AppendItem(p) ==
    /\ procs[p].pc = "start"
    /\ procs[p].fn = "add_item"
    /\ todo_file("a", cwd, dirs, home).ok
    /\ store' = add_item(procs[p].item, store)
    /\ procs' = [procs EXCEPT ![p].pc = "done",
                              ![p].at = Append(@, procs[Other(p)].pc)]
    /\ UNCHANGED <<pc, prev, argv, stdin, tty, exit, out, err, calls,
                   opens, fpath, ub, cwd, home, dirs>>

\* the process is killed between todo_file("w") and fclose: what fputs has
\* buffered never reaches the file
Killed(p) ==
    /\ procs[p].pc = "opened"
    /\ procs' = [procs EXCEPT ![p].pc = "killed"]
    /\ UNCHANGED <<pc, store, prev, argv, stdin, tty, exit, out, err, calls,
                   opens, fpath, ub, cwd, home, dirs>>

\* the files of at most n lines, each a todo line, a done line or a
\* foreign line
RaceStores(n) ==
    UNION {FilesOf(bs) :
               bs \in SeqsUpTo({<<"[", " ", "]", " ", "a">>,
                                <<"[", "X", "]", " ", "b">>, <<"#">>}, n)}

\* the first invocation is a toggle, the second is any of RaceOps
InitRace ==
    /\ pc = "ready"
    /\ store \in RaceStores(MaxRaceLines)
    /\ prev = store
    /\ RunVarsClear
    /\ InCwd
    /\ procs \in {<<Started(a), Started(b)>> :
                      a \in {op \in RaceOps : IsToggle(op.fn)}, b \in RaceOps}

NextRace ==
    \E p \in Invocations :
        \/ ReadPass(p)
        \/ OpenForWriting(p)
        \/ WritePass(p)
        \/ AppendItem(p)
        \/ Killed(p)

SpecRace == InitRace /\ [][NextRace]_vars

----------------------------------------------------------------------------
(* Properties *)

\* the lines of a file
Lines(f) == fgets_lines(f)

IsTodo(line) == Len(line) >= 3 /\ SubSeq(line, 1, 3) = <<"[", " ", "]">>

IsDone(line) == Len(line) >= 3 /\ SubSeq(line, 1, 3) = <<"[", "X", "]">>

IsForeign(line) == ~IsTodo(line) /\ ~IsDone(line)

\* the positions in ls of its todo, done lines, in file order
TodoAt(ls) == SelectSeq([k \in 1..Len(ls) |-> k], LAMBDA k : IsTodo(ls[k]))

DoneAt(ls) == SelectSeq([k \in 1..Len(ls) |-> k], LAMBDA k : IsDone(ls[k]))

\* ls without its k-th element
Without(ls, k) == SubSeq(ls, 1, k - 1) \o SubSeq(ls, k + 1, Len(ls))

\* line with its mark character set to c
Marked(line, c) == [line EXCEPT ![2] = c]

\* how often x occurs in the sequence q
Occurrences(q, x) == Cardinality({k \in 1..Len(q) : q[k] = x})

SameBag(q, r) ==
    /\ Len(q) = Len(r)
    /\ \A k \in 1..Len(q) : Occurrences(q, q[k]) = Occurrences(r, q[k])

Min(x, y) == IF x <= y THEN x ELSE y

\* the run that has just ended made exactly one call, of fn
Did(fn) == pc = "exited" /\ Len(calls) = 1 /\ calls[1].fn = fn

\* ... and its count was a rank of a todo (done) line of the file
DidMarkDoneInRange == Did("mark_done") /\ calls[1].n <= Len(TodoAt(Lines(prev)))

DidMarkTodoInRange == Did("mark_todo") /\ calls[1].n <= Len(DoneAt(Lines(prev)))

DidMarkDoneOutOfRange == Did("mark_done") /\ calls[1].n > Len(TodoAt(Lines(prev)))

DidMarkTodoOutOfRange == Did("mark_todo") /\ calls[1].n > Len(DoneAt(Lines(prev)))

\* the text "[ ] a" and friends, as files
F(bs) == Flatten([k \in 1..Len(bs) |-> bs[k] \o <<NL>>])

TodoA == <<"[", " ", "]", " ", "a">>
TodoB == <<"[", " ", "]", " ", "b">>
DoneA == <<"[", "X", "]", " ", "a">>
DoneB == <<"[", "X", "]", " ", "b">>

\* C1: after mark_done(r) with r a rank of a todo line, the file holds the
\* r-th todo line with its mark changed to X and nothing else changed, then
\* every other line of the old file in the old order.
C1_ToggleToTop ==
    DidMarkDoneInRange =>
        LET ls == Lines(prev)
            k == TodoAt(ls)[calls[1].n]
        IN  store = Flatten(<<Marked(ls[k], "X")>> \o Without(ls, k))

\* `[ ] a, [ ] b, [ ] a' and mark_done(2) give `[X] b, [ ] a, [ ] a'
C1_Witness ==
    /\ DidMarkDoneInRange
    /\ calls[1].n = 2
    /\ prev = F(<<TodoA, TodoB, TodoA>>)
    /\ store = F(<<DoneB, TodoA, TodoA>>)

\* C2: after mark_todo(r) with r a rank of a done line, the file holds
\* every other line of the old file in the old order, then the r-th done
\* line with its mark changed to a blank and nothing else changed.
C2_ToggleToBottom ==
    DidMarkTodoInRange =>
        LET ls == Lines(prev)
            k == DoneAt(ls)[calls[1].n]
        IN  store = Flatten(Without(ls, k) \o <<Marked(ls[k], " ")>>)

\* `[X] a, [ ] b, [X] b' and mark_todo(2) give `[X] a, [ ] b, [ ] b'
C2_Witness ==
    /\ DidMarkTodoInRange
    /\ calls[1].n = 2
    /\ prev = F(<<DoneA, TodoB, DoneB>>)
    /\ store = F(<<DoneA, TodoB, TodoB>>)

\* the lines of the old file with the toggled one re-marked
ToggledLines ==
    LET ls == Lines(prev)
    IN  IF DidMarkDoneInRange
        THEN [ls EXCEPT ![TodoAt(ls)[calls[1].n]] = Marked(@, "X")]
        ELSE IF DidMarkTodoInRange
        THEN [ls EXCEPT ![DoneAt(ls)[calls[1].n]] = Marked(@, " ")]
        ELSE ls

\* C3: a listing or a toggle leaves the number of lines as it was, each
\* add_item adds exactly one line, and the lines after a toggle are the
\* lines before it, but for the one changed mark, in some order; whether or
\* not the last line of the file ends in a newline.
C3_LineCount ==
    /\ pc = "exited" /\ calls # <<>> /\ calls[1].fn = "add_item"
           => Len(Lines(store)) = Len(Lines(prev)) + Len(calls)
    /\ Did("print_todo") \/ Did("print_done") \/ Did("print_all")
           => Len(Lines(store)) = Len(Lines(prev))
    /\ Did("mark_done") \/ Did("mark_todo")
           => SameBag(Lines(store), ToggledLines)

\* C4: a toggle whose count is beyond the ranks of its class leaves the file
\* byte for byte as it was.
C4_OutOfRangeUnchanged ==
    DidMarkDoneOutOfRange \/ DidMarkTodoOutOfRange => store = prev

\* mark_done(3) on a file of three lines, two of them todo
C4_Witness ==
    /\ DidMarkDoneOutOfRange
    /\ Len(TodoAt(Lines(prev))) = 2
    /\ Len(Lines(prev)) = 3
    /\ store = prev

\* the foreign lines of a file, in file order
ForeignLines(f) == SelectSeq(Lines(f), IsForeign)

\* C5: after a listing or a toggle, in range or not, the foreign lines of
\* the file are the foreign lines it had, in the same order, byte for byte.
C5_ForeignRoundTrip ==
    \/ Did("print_todo") \/ Did("print_done") \/ Did("print_all")
    \/ Did("mark_done") \/ Did("mark_todo")
    => ForeignLines(store) = ForeignLines(prev)

\* C6: add_item(t) leaves the lines the file had, unchanged and in order,
\* and after them the one line "[ ] " t "\n", which is a todo line.
C6_Append ==
    Did("add_item") =>
        LET new == <<"[", " ", "]", " ">> \o calls[1].item \o <<NL>>
        IN  /\ Lines(store) = Lines(prev) \o <<new>>
            /\ IsTodo(Lines(store)[Len(Lines(store))])

\* what a listing with limit L is to print, the lines of its class being
\* at the positions at of the file
Listing(at, L) ==
    LET ls == Lines(prev)
    IN  [i \in 1..Min(L, Len(at)) |-> [n |-> i, line |-> ls[at[i]]]]

\* C7: a listing of a class with limit L >= 1 prints the first min(L, number
\* of lines of the class) lines of the class, in file order, numbered 1, 2,
\* ... without gaps, and no other line.
C7_ListingRanks ==
    /\ Did("print_todo") => out = Listing(TodoAt(Lines(prev)), calls[1].n)
    /\ Did("print_done") => out = Listing(DoneAt(Lines(prev)), calls[1].n)

\* `[ ] a, [X] b, [ ] b' listed with limit 1, which is less than its two
\* todo lines
C7_Witness ==
    /\ Did("print_todo")
    /\ calls[1].n = 1
    /\ prev = F(<<TodoA, DoneB, TodoB>>)
    /\ out = <<[n |-> 1, line |-> TodoA \o <<NL>>]>>

\* the same file listed with a limit beyond its todo lines
C7_WitnessAll ==
    /\ Did("print_todo")
    /\ calls[1].n = 10
    /\ prev = F(<<TodoA, DoneB, TodoB>>)
    /\ Len(out) = 2 /\ out[2] = [n |-> 2, line |-> TodoB \o <<NL>>]

\* a line of stdin without its newline, if it has one
Chomp(line) ==
    IF line # <<>> /\ line[Len(line)] = NL THEN SubSeq(line, 1, Len(line) - 1)
    ELSE line

\* the run read its items from stdin
ReadStdin == pc = "exited" /\ argv = <<FLAG_CAPTURE>> /\ ~tty

\* C8: when the items come from stdin, each line is stripped of one trailing
\* newline and appended if and only if what is left is not empty: the items
\* appended are the non-empty lines of the input, in order.
C8_StreamDropsBlanks ==
    ReadStdin =>
        LET texts == [k \in 1..Len(Lines(stdin)) |-> Chomp(Lines(stdin)[k])]
            kept == SelectSeq(texts, LAMBDA t : t # <<>>)
        IN  /\ Len(calls) = Len(kept)
            /\ \A k \in 1..Len(calls) :
                   calls[k].fn = "add_item" /\ calls[k].item = kept[k]

\* the count-taking options
ShortFlagOf(fl) == Len(fl) >= 2 /\ SubSeq(fl, 1, 2) \in ShortCountFlags

\* argv has a count-taking form, `-x N' (or its long form) or `-xN'
SeparatedForm(a) ==
    Len(a) = 2 /\ a[1] \in ShortCountFlags \cup LongCountFlags

ConcatenatedForm(a) == Len(a) = 1 /\ Len(a[1]) >= 3 /\ ShortFlagOf(a[1])

\* the count token of such an argv
CountToken(a) == IF SeparatedForm(a) THEN a[2] ELSE SubSeq(a[1], 3, Len(a[1]))

\* tok has a character that is no digit, or is a number and denotes zero
InvalidCount(tok) ==
    /\ tok # <<>>
    /\ \/ \E i \in 1..Len(tok) : tok[i] \notin Digits
       \/ \A i \in 1..Len(tok) : tok[i] = "0"

\* the run failed and did not touch the file
Rejected ==
    /\ exit = "EXIT_FAILURE"
    /\ opens = <<>> /\ calls = <<>> /\ out = <<>>
    /\ store = prev

\* C9: a count-taking option, in the form `-x N' or `-xN', whose count token
\* has a character that is no digit, or denotes zero, ends in failure with
\* the file not opened, read or written.
C9_InvalidCountRejected ==
    /\ pc = "exited"
    /\ SeparatedForm(argv) \/ ConcatenatedForm(argv)
    /\ InvalidCount(CountToken(argv))
    => Rejected

\* `-x1a' on a file with a todo line
C9_Witness ==
    /\ pc = "exited"
    /\ argv = <<<<"-", "x", "1", "a">>>>
    /\ InvalidCount(CountToken(argv))
    /\ TodoAt(Lines(prev)) # <<>>
    /\ Rejected

\* what the caller sees of a run
Outcome == <<exit, out, err>>

\* C10: a toggle whose count is beyond the ranks of its class ends in an
\* outcome the caller can tell from that of a toggle that found its line.
C10_NotFoundSignalled ==
    DidMarkDoneOutOfRange \/ DidMarkTodoOutOfRange
        => Outcome # <<"EXIT_SUCCESS", <<>>, <<>>>>

\* a toggle that finds its line ends with success and prints nothing
ToggleFoundOutcome ==
    DidMarkDoneInRange \/ DidMarkTodoInRange
        => Outcome = <<"EXIT_SUCCESS", <<>>, <<>>>>

----------------------------------------------------------------------------
(* The file the runs use *)

\* d is the directory c or one above it, up to the root
IsAncestorOrSelf(d, c) ==
    \/ d = <<"/">>
    \/ d = c
    \/ Len(d) < Len(c) /\ SubSeq(c, 1, Len(d)) = d /\ c[Len(d) + 1] = "/"

\* the directories among c and those above it that hold a .todo file
StoresAbove(c) == {d \in dirs : IsAncestorOrSelf(d, c)}

\* the run has called todo_path
Located == pc = "exited" /\ fpath # <<>>

\* C11: todo_path returns the .todo file of the nearest directory, among
\* the working directory and all directories above it up to the root, that
\* holds one, and the path in HOME only when none of them holds one.
C11_NearestStore ==
    Located =>
        IF StoresAbove(cwd) = {} THEN fpath[1] = todo_home_path(home)
        ELSE /\ fpath[1] # <<>>
             /\ todo_dir(fpath[1][1]) \in StoresAbove(cwd)
             /\ \A d \in StoresAbove(cwd) : Len(d) <= Len(todo_dir(fpath[1][1]))

\* what todo_path does: it looks in the working directory and in the
\* directories above it but for the root
SearchedAbove(c) == {d \in StoresAbove(c) : d # <<"/">> \/ c = <<"/">>}

NearestBelowRoot ==
    Located =>
        IF SearchedAbove(cwd) = {} THEN fpath[1] = todo_home_path(home)
        ELSE /\ fpath[1] # <<>>
             /\ todo_dir(fpath[1][1]) \in SearchedAbove(cwd)
             /\ \A d \in SearchedAbove(cwd) : Len(d) <= Len(todo_dir(fpath[1][1]))

----------------------------------------------------------------------------
(* The rewrite of a toggle *)

\* the file the toggle p writes of the file its read loop saw
Rewritten(p) ==
    IF procs[p].fn = "mark_done"
    THEN mark_done(procs[p].n, procs[p].seen).store
    ELSE mark_todo(procs[p].n, procs[p].seen).store

\* the toggle p has read the file, and the other invocation has done
\* nothing so far
TogglingAlone(p) ==
    /\ procs # <<>>
    /\ IsToggle(procs[p].fn)
    /\ procs[p].pc \in {"read", "opened", "done", "killed"}
    /\ procs[Other(p)].pc = "start"

\* C12: from the start to the end of a toggle the file holds all of what
\* it held before or all of the new content, and a toggle that fails after
\* it has opened the file for writing leaves what the file held before.
C12_AtomicRewrite ==
    \A p \in Invocations :
        TogglingAlone(p) =>
            /\ store \in {procs[p].seen, Rewritten(p)}
            /\ procs[p].pc = "killed" => store = procs[p].seen

----------------------------------------------------------------------------
(* Messages in the arguments *)

\* the run was given `--' and at least one message argument
MessageArgs ==
    pc = "exited" /\ Len(argv) >= 2 /\ argv[1] = FLAG_CAPTURE

\* the todo line of the text t
TodoLine(t) == <<"[", " ", "]", " ">> \o t \o <<NL>>

\* the strings ws, a blank between each two of them
Joined(ws) ==
    Flatten([k \in 1..Len(ws) |-> IF k = 1 THEN ws[k] ELSE <<" ">> \o ws[k]])

\* C13, as claimed: `--' followed by k >= 1 message arguments appends k
\* todo lines to the file, one for each argument, in the order of the
\* arguments.
C13_OneItemPerArgument ==
    MessageArgs =>
        /\ Len(calls) = Len(argv) - 1
        /\ \A k \in 1..Len(calls) :
               calls[k].fn = "add_item" /\ calls[k].item = argv[k + 1]
        /\ store = prev \o Flatten([k \in 1..Len(argv) - 1 |->
                                       TodoLine(argv[k + 1])])

\* C13, amended: `--' followed by k >= 1 message arguments makes one
\* add_item call, whose text is the arguments in their order with a blank
\* between each two, and appends the bytes of that one todo line to the
\* file.
C13_OneItemFromArguments ==
    MessageArgs =>
        LET text == Joined(SubSeq(argv, 2, Len(argv)))
        IN  /\ calls = <<[NoCall EXCEPT !.fn = "add_item", !.item = text]>>
            /\ opens = <<"a">>
            /\ store = prev \o TodoLine(text)

\* `-- b a' on the file `#' appends `[ ] b a'
C13_Witness ==
    /\ MessageArgs
    /\ argv = <<FLAG_CAPTURE, <<"b">>, <<"a">>>>
    /\ prev = <<"#", NL>>
    /\ store = <<"#", NL, "[", " ", "]", " ", "b", " ", "a", NL>>

----------------------------------------------------------------------------
(* Classes of lines *)

\* the lines a listing printed, in order
Printed == [i \in 1..Len(out) |-> out[i].line]

\* a listing whose limit is beyond the lines of the file
DidListAll(fn) == Did(fn) /\ calls[1].n >= Len(Lines(prev))

\* C14: a line is todo if and only if its first three characters are
\* "[ ]", done if and only if they are "[X]" with a capital X, and foreign
\* otherwise; a line of fewer than three characters is foreign, and is
\* classified by reading no byte after the NUL that ends it; no line is
\* both.  The listings print the lines of their class, and only them.
C14_Classification ==
    /\ \A k \in 1..Len(Lines(prev)) :
           LET line == Lines(prev)[k]
               t == strncmp_loop(line, <<"[", " ", "]">>, 3, 1)
               d == strncmp_loop(line, <<"[", "X", "]">>, 3, 1)
           IN  /\ line_is_todo(line) <=> IsTodo(line)
               /\ line_is_done(line) <=> IsDone(line)
               /\ ~(line_is_todo(line) /\ line_is_done(line))
               /\ Len(line) < 3 => ~line_is_todo(line) /\ ~line_is_done(line)
               /\ t.last <= Len(line) + 1 /\ d.last <= Len(line) + 1
    /\ DidListAll("print_todo") =>
           Printed = SelectSeq(Lines(prev), IsTodo) /\ ub = <<>>
    /\ DidListAll("print_done") =>
           Printed = SelectSeq(Lines(prev), IsDone) /\ ub = <<>>

\* `[x]', `[X' listed with -d 10: the second line, which has no newline
\* and is shorter than three characters, is not done, nor is the first
C14_Witness ==
    /\ DidListAll("print_done")
    /\ prev = <<"[", "x", "]", NL, "[", "X">>
    /\ out = <<>>

\* `[x]', `[X]' listed with -d 10: the second line is done
C14_WitnessDone ==
    /\ DidListAll("print_done")
    /\ prev = <<"[", "x", "]", NL, "[", "X", "]", NL>>
    /\ Printed = <<<<"[", "X", "]", NL>>>>

----------------------------------------------------------------------------
(* Both listings *)

\* C15: print_all with limit L >= 1 prints the todo listing bounded by L,
\* then the done listing bounded by L, each numbered from 1 on its own:
\* min(L, todo lines) + min(L, done lines) entries, every todo entry before
\* every done entry.
C15_PrintAllComposed ==
    Did("print_all") =>
        LET L == calls[1].n
            todo == TodoAt(Lines(prev))
            done == DoneAt(Lines(prev))
        IN  /\ out = Listing(todo, L) \o Listing(done, L)
            /\ Len(out) = Min(L, Len(todo)) + Min(L, Len(done))
            /\ \A i \in 1..Len(out) :
                   /\ i <= Min(L, Len(todo)) => out[i].n = i /\ IsTodo(out[i].line)
                   /\ i > Min(L, Len(todo)) =>
                          /\ out[i].n = i - Min(L, Len(todo))
                          /\ IsDone(out[i].line)

\* `[ ] a, [X] b, [ ] b' listed with -a 1: the first todo line and the
\* done line, each with the number 1
C15_Witness ==
    /\ Did("print_all")
    /\ calls[1].n = 1
    /\ prev = F(<<TodoA, DoneB, TodoB>>)
    /\ out = <<[n |-> 1, line |-> TodoA \o <<NL>>],
               [n |-> 1, line |-> DoneB \o <<NL>>]>>

----------------------------------------------------------------------------
(* The array of retained lines *)

\* C16: in mark_done and mark_todo every store into lines[line_num] is
\* made with line_num less than the capacity the array has at that time,
\* however many lines the file has: the array is grown before the first
\* store that would go beyond it.
C16_StoresWithinCapacity ==
    Did("mark_done") \/ Did("mark_todo") => ub = <<>>

----------------------------------------------------------------------------
(* A file that cannot be opened *)

\* the run called a function that opens the file, and its first
\* todo_file() call returned NULL: todo_path returned NULL, or the file to
\* be read does not exist
OpenFailed ==
    /\ pc = "exited"
    /\ calls # <<>>
    /\ calls[1].fn \in {"print_all", "print_todo", "print_done", "mark_done",
                         "mark_todo", "add_item"}
    /\ fpath # <<>>
    /\ \/ fpath[1] = <<>>
       \/ calls[1].fn # "add_item" /\ ~file_exists(fpath[1][1], dirs)

\* C17: when the file cannot be resolved or opened, each of the listings,
\* mark_done, mark_todo and add_item ends with an error and has not read
\* from, written to or closed a file it has not opened; a toggle that
\* cannot open the file for reading writes nothing.
C17_OpenFailureHandled ==
    OpenFailed =>
        /\ ub = <<>>
        /\ exit \in {"EXIT_SUCCESS", "EXIT_FAILURE"}
        /\ err # <<>>
        /\ opens = <<>>
        /\ store = prev

\* the toggles do test what todo_file returns
ToggleOpenFailureHandled ==
    OpenFailed /\ IsToggle(calls[1].fn) =>
        ub = <<>> /\ err # <<>> /\ opens = <<>> /\ store = prev

----------------------------------------------------------------------------
(* A toggle and its way back *)

\* the last element of a sequence that has one
Last(q) == q[Len(q)]

\* after mark_done(r) with r in range the toggled line is the first done
\* line of the file, and mark_todo(1) on that file leaves the lines of the
\* old file, the r-th todo line moved to the end and the others in their
\* order; after mark_todo(r) with r in range the toggled line is the last
\* todo line of the file
RoundTrip ==
    /\ DidMarkDoneInRange =>
           LET ls == Lines(prev)
               k == TodoAt(ls)[calls[1].n]
               new == Lines(store)
           IN  /\ DoneAt(new) # <<>>
               /\ new[DoneAt(new)[1]] = Marked(ls[k], "X")
               /\ Lines(mark_todo(1, store).store) = Without(ls, k) \o <<ls[k]>>
    /\ DidMarkTodoInRange =>
           LET ls == Lines(prev)
               k == DoneAt(ls)[calls[1].n]
               new == Lines(store)
           IN  /\ TodoAt(new) # <<>>
               /\ new[Last(TodoAt(new))] = Marked(ls[k], " ")

\* C18: a toggled item is the most recent of its new class, done of rank 1
\* after mark_done and todo of the highest rank after mark_todo, so that
\* mark_done(r) followed by mark_todo(1) gives back the lines of the file,
\* with the r-th todo line, byte for byte, moved to the end.
C18_RoundTripByRecency == RoundTrip

\* the same for files whose last line ends in a newline
RoundTripOfEndedFiles ==
    prev = <<>> \/ Last(prev) = NL => RoundTrip

----------------------------------------------------------------------------
(* Two writers *)

\* the toggle p and the other invocation have both ended, the other one
\* has changed the file, and every change it made came after the read loop
\* of p and before p opened the file for writing
Overtaken(p) ==
    /\ procs # <<>>
    /\ IsToggle(procs[p].fn)
    /\ procs[p].pc = "done"
    /\ procs[Other(p)].pc = "done"
    /\ procs[Other(p)].at # <<>>
    /\ \A i \in 1..Len(procs[Other(p)].at) : procs[Other(p)].at[i] = "read"

\* C19: nothing keeps two invocations apart.  When what another invocation
\* writes, an appended item or the rewrite of another toggle, reaches the
\* file after a toggle has read it and before that toggle writes it, the
\* toggle replaces the file by what it has read, toggled, and the change of
\* the other invocation is not in the file that is left.
C19_LastWriterWins ==
    \A p \in Invocations :
        Overtaken(p) =>
            /\ store = Rewritten(p)
            /\ procs[Other(p)].fn = "add_item" =>
                   \A i \in 1..Len(store) : store[i] # "c"

\* `[ ] a': mark_done(1) reads it, add_item("c") appends to it, and
\* mark_done writes `[X] a'
C19_Witness ==
    /\ Overtaken(1)
    /\ procs[1].fn = "mark_done" /\ procs[1].n = 1
    /\ procs[2].fn = "add_item"
    /\ procs[1].seen = F(<<TodoA>>)
    /\ store = F(<<DoneA>>)

\* the same with two toggles: mark_todo(1) moves `[X] b' to the end as
\* `[ ] b' while mark_done(1) holds the file it has read
C19_WitnessToggles ==
    /\ Overtaken(1)
    /\ procs[1].fn = "mark_done" /\ procs[1].n = 1
    /\ procs[2].fn = "mark_todo" /\ procs[2].n = 1
    /\ procs[1].seen = <<"[", "X", "]", " ", "b", NL, "[", " ", "]", " ", "a", NL>>
    /\ procs[2].seen = procs[1].seen
    /\ store = <<"[", "X", "]", " ", "a", NL, "[", "X", "]", " ", "b", NL>>

----------------------------------------------------------------------------
(* An option without its count *)

\* the run was given one argument, a count-taking option of the flags fls
LoneOption(fls) == pc = "exited" /\ Len(argv) = 1 /\ argv[1] \in fls

\* the run reported an error and failed, and has neither read argv[2] nor
\* touched the file
RejectedUnread == Rejected /\ err # <<>> /\ ub = <<>>

\* C20: a run with exactly one argument that is a count-taking option, in
\* its short or its long form, reports an error and returns failure; it
\* does not read argv[2], which is not there, and does not touch the file.
C20_MissingCountRejected ==
    LoneOption(ShortCountFlags \cup LongCountFlags) => RejectedUnread

\* the short forms are rejected so
ShortMissingCountRejected == LoneOption(ShortCountFlags) => RejectedUnread

====
